---------------------------- MODULE Spec2Model ----------------------------
(***************************************************************************)
(* A model of the soapus code generator (soapus-codegen):                  *)
(*   - parser/mod.rs                 QName                                 *)
(*   - parser/xsd/mod.rs             the schema object model               *)
(*   - parser/xsd/complex_type.rs    parse_complex_type, parse_attribute   *)
(*   - generator/rust_codegen.rs     generate_complex_type,                *)
(*                                   generate_simple_type_enum,            *)
(*                                   generate_operation_method             *)
(*                                                                         *)
(* Text is modelled as a sequence of one-character strings, so that case   *)
(* conversion, prefix splitting and comparisons of names are computed and  *)
(* not assumed.  Emitted source text is a sequence of lines; a line keeps  *)
(* the format string that produced it (kind) and its arguments (a, b).     *)
(***************************************************************************)
EXTENDS Integers, Sequences, FiniteSets, TLC

(***************************************************************************)
(* Bounds of the model.                                                    *)
(***************************************************************************)
MaxFields == 3

MaxFacets == 3

MaxParts == 2

MaxMessages == 1

MaxOpen == 3

MaxContent == 2

MaxTypes == 2

MaxName == 5

MaxTags == 3

(***************************************************************************)
(* Characters and text.                                                    *)
(***************************************************************************)
UpperSeq ==
    << "A", "B", "C", "D", "E", "F", "G", "H", "I", "J", "K", "L", "M",
       "N", "O", "P", "Q", "R", "S", "T", "U", "V", "W", "X", "Y", "Z" >>

LowerSeq ==
    << "a", "b", "c", "d", "e", "f", "g", "h", "i", "j", "k", "l", "m",
       "n", "o", "p", "q", "r", "s", "t", "u", "v", "w", "x", "y", "z" >>

Range(s) == { s[i] : i \in DOMAIN s }

IsUpper(c) == c \in Range(UpperSeq)

IsLower(c) == c \in Range(LowerSeq)

IndexIn(s, c) == CHOOSE i \in DOMAIN s : s[i] = c

ToLower(c) == IF IsUpper(c) THEN LowerSeq[IndexIn(UpperSeq, c)] ELSE c

ToUpper(c) == IF IsLower(c) THEN UpperSeq[IndexIn(LowerSeq, c)] ELSE c

\* Option<T>: None, or Some(v)
None == [some |-> FALSE]

Some(v) == [some |-> TRUE, val |-> v]

IsSome(o) == o.some

(***************************************************************************)
(* parser/mod.rs: QName                                                    *)
(***************************************************************************)
\* the position of the last ':' of s, 0 when none
FirstColon_Last(s) ==
    IF \E i \in DOMAIN s : s[i] = ":"
    THEN CHOOSE i \in DOMAIN s :
             s[i] = ":" /\ \A j \in (i + 1)..Len(s) : s[j] # ":"
    ELSE 0

\* str::split_once(':'): the position of the first ':' of s, 0 when none
FirstColon(s) ==
    IF \E i \in DOMAIN s : s[i] = ":"
    THEN CHOOSE i \in DOMAIN s :
             s[i] = ":" /\ \A j \in 1..(i - 1) : s[j] # ":"
    ELSE 0

\* QName::prefix
prefix(q) ==
    IF FirstColon(q) = 0 THEN None ELSE Some(SubSeq(q, 1, FirstColon(q) - 1))

\* QName::local_name
local_name(q) ==
    IF FirstColon(q) = 0 THEN q ELSE SubSeq(q, FirstColon(q) + 1, Len(q))

(***************************************************************************)
(* generator/mod.rs: the naming utility (not among the sources at hand;    *)
(* modelled from the specification's section 4.4 and its examples).        *)
(***************************************************************************)
RECURSIVE SnakeFrom(_, _)
SnakeFrom(s, i) ==
    IF i > Len(s) THEN << >>
    ELSE IF IsUpper(s[i])
         THEN (IF i > 1 /\ (IsLower(s[i - 1])) THEN << "_" >> ELSE << >>)
              \o << ToLower(s[i]) >> \o SnakeFrom(s, i + 1)
         ELSE << s[i] >> \o SnakeFrom(s, i + 1)

\* userName -> user_name, Code -> code, getAllVersions -> get_all_versions
to_snake_case(s) == SnakeFrom(s, 1)

IsSeparator(c) == c \in { "_", "-", "." }

RECURSIVE PascalFrom(_, _, _)
PascalFrom(s, i, cap) ==
    IF i > Len(s) THEN << >>
    ELSE IF IsSeparator(s[i]) THEN PascalFrom(s, i + 1, TRUE)
         ELSE << (IF cap THEN ToUpper(s[i]) ELSE s[i]) >>
              \o PascalFrom(s, i + 1, FALSE)

\* getAllVersions -> GetAllVersions, dark_blue -> DarkBlue
to_pascal_case(s) == PascalFrom(s, 1, TRUE)

\* the target language's reserved words that occur among the names used
ReservedWords ==
    { << "t", "y", "p", "e" >>, << "u", "s", "e" >>, << "r", "e", "f" >> }

\* a reserved word is made a legal identifier by a trailing underscore
sanitize_identifier(s) == IF s \in ReservedWords THEN s \o << "_" >> ELSE s


(***************************************************************************)
(* generator/type_mapper.rs: TypeMapper (not among the sources at hand;    *)
(* modelled from the specification's section 4.3).                         *)
(***************************************************************************)
S_string == << "s", "t", "r", "i", "n", "g" >>

S_int == << "i", "n", "t" >>

S_boolean == << "b", "o", "o", "l", "e", "a", "n" >>

S_double == << "d", "o", "u", "b", "l", "e" >>

S_long == << "l", "o", "n", "g" >>

\* the builtin scalar table, keyed by the local name of the type reference
IsBuiltin(l) == l \in { S_string, S_int, S_boolean, S_double, S_long }

BuiltinType(l) ==
    CASE l = S_string -> << "S", "t", "r", "i", "n", "g" >>
      [] l = S_int -> << "i", "3", "2" >>
      [] l = S_boolean -> << "b", "o", "o", "l" >>
      [] l = S_double -> << "f", "6", "4" >>
      [] l = S_long -> << "i", "6", "4" >>

\* TypeMapper::map_type: a builtin scalar, or the case-converted local name
map_type(q) ==
    IF IsBuiltin(local_name(q)) THEN BuiltinType(local_name(q))
    ELSE to_pascal_case(local_name(q))

OptionOf(t) == << "O", "p", "t", "i", "o", "n", "<" >> \o t \o << ">" >>

VecOf(t) == << "V", "e", "c", "<" >> \o t \o << ">" >>

DigitSeq == << "0", "1", "2", "3", "4", "5", "6", "7", "8", "9" >>

IsNumber(s) == Len(s) > 0 /\ \A i \in DOMAIN s : s[i] \in Range(DigitSeq)

RECURSIVE ParseNumber(_)
ParseNumber(s) ==
    IF Len(s) = 0 THEN 0
    ELSE 10 * ParseNumber(SubSeq(s, 1, Len(s) - 1))
         + (IndexIn(DigitSeq, s[Len(s)]) - 1)

S_unbounded == << "u", "n", "b", "o", "u", "n", "d", "e", "d" >>

\* maxOccurs is "unbounded" or a literal count above one
IsRepeated(max_occurs) ==
    /\ IsSome(max_occurs)
    /\ \/ max_occurs.val = S_unbounded
       \/ IsNumber(max_occurs.val) /\ ParseNumber(max_occurs.val) > 1

\* minOccurs is zero, or the element is nillable
IsOptional(min_occurs, nillable) ==
    \/ IsSome(min_occurs) /\ min_occurs.val = 0
    \/ nillable

\* TypeMapper::map_type_with_occurs
map_type_with_occurs(q, min_occurs, max_occurs, nillable) ==
    LET base == map_type(q)
        repeated == IF IsRepeated(max_occurs) THEN VecOf(base) ELSE base
    IN  IF IsOptional(min_occurs, nillable) THEN OptionOf(repeated)
        ELSE repeated

(***************************************************************************)
(* parser/xsd/mod.rs: the schema object model, and the values the model    *)
(* draws its inputs from.                                                  *)
(***************************************************************************)
SeqsUpTo(S, n) == UNION { [1..k -> S] : k \in 0..n }

Q_xs_string == << "x", "s", ":", "s", "t", "r", "i", "n", "g" >>

Q_xs_int == << "x", "s", ":", "i", "n", "t" >>

Q_tns_myType == << "t", "n", "s", ":", "m", "y", "T", "y", "p", "e" >>

S_userName == << "u", "s", "e", "r", "N", "a", "m", "e" >>

S_Code == << "C", "o", "d", "e" >>

S_items == << "i", "t", "e", "m", "s" >>

S_type == << "t", "y", "p", "e" >>

S_key == << "k", "e", "y" >>

S_id == << "i", "d" >>

AttributeUse == { "Required", "Optional", "Prohibited" }

\* struct Attribute { name, type_, use_ }: every usage under one name, and
\* an attribute whose name is a reserved word
Attributes ==
    [ name : { S_key }, type_ : { Q_xs_string }, use_ : AttributeUse ]
    \cup
    [ name : { S_type }, type_ : { Q_xs_int }, use_ : { "Optional" } ]

MinOccursValues == { 0, 1 }

MaxOccursValues == { None, Some(<< "1" >>), Some(S_unbounded) }

\* struct SequenceElement { name, type_, min_occurs, max_occurs, nillable }:
\* every name with the default occurrence, every occurrence under one name
SequenceElements ==
    [ name : { S_userName, S_Code, S_type }, type_ : { Q_tns_myType },
      min_occurs : { 1 }, max_occurs : { None }, nillable : { FALSE } ]
    \cup
    [ name : { S_items }, type_ : { Q_xs_string },
      min_occurs : MinOccursValues, max_occurs : MaxOccursValues,
      nillable : BOOLEAN ]

\* ComplexType::default()
DefaultComplexType ==
    [ name |-> << >>, sequence |-> None, choice |-> None, all |-> None,
      base_type |-> None, attributes |-> << >> ]

S_Entity == << "E", "n", "t", "i", "t", "y" >>

S_mapEntry == << "m", "a", "p", "E", "n", "t", "r", "y" >>

TypeNames == { S_Entity, S_mapEntry }

\* the name the generator is called with
GeneratedName == S_mapEntry

\* a complex type as the parser builds it: it fills name, sequence and
\* attributes only.  m = -1 stands for an absent sequence.
ComplexTypeOf(n, a, m, e) ==
    [ DefaultComplexType EXCEPT
        !.name = n,
        !.sequence = IF m = -1 THEN None ELSE Some([ elements |-> e ]),
        !.attributes = a ]

(***************************************************************************)
(* generator/rust_codegen.rs: generate_complex_type                        *)
(***************************************************************************)
\* one line of emitted text: the format string (kind) and its arguments
Line(kind, a, b) == [ kind |-> kind, a |-> a, b |-> b ]

Ok(v) == [ ok |-> TRUE, val |-> v ]

RECURSIVE Flatten(_)
Flatten(ss) == IF Len(ss) = 0 THEN << >> ELSE Head(ss) \o Flatten(Tail(ss))

\* mutant: the attributes are not counted
is_empty_IgnoresAttributes(complex_type) ==
    \/ ~IsSome(complex_type.sequence)
    \/ Len(complex_type.sequence.val.elements) = 0

\* rust_codegen.rs 20-26
is_empty(complex_type) ==
    /\ \/ ~IsSome(complex_type.sequence)
       \/ Len(complex_type.sequence.val.elements) = 0
    /\ Len(complex_type.attributes) = 0

\* rust_codegen.rs 30-34
DeriveLine(complex_type) ==
    IF is_empty(complex_type)
    THEN Line("derive",
              << "Debug", "Clone", "Default", "PartialEq", "Serialize",
                 "Deserialize" >>, << >>)
    ELSE Line("derive",
              << "Debug", "Clone", "PartialEq", "Serialize", "Deserialize" >>,
              << >>)

\* mutant: only an Optional attribute is wrapped
AttributeType_OnlyOptionalWrapped(attr) ==
    IF attr.use_ # "Optional" THEN map_type(attr.type_)
    ELSE OptionOf(map_type(attr.type_))

\* rust_codegen.rs 51-55
AttributeType(attr) ==
    IF attr.use_ = "Required" THEN map_type(attr.type_)
    ELSE OptionOf(map_type(attr.type_))

\* rust_codegen.rs 46-65: the lines of one attribute
AttributeField(attr) ==
    LET field_name == to_snake_case(attr.name)
        sanitized_field_name == sanitize_identifier(field_name)
    IN  << Line("field_rename", << "@" >> \o attr.name, << >>),
           Line("field", sanitized_field_name, AttributeType(attr)) >>

\* mutant: the identifier is compared with the converted name
ElementRename_ComparesConverted(sanitized_field_name, elem) ==
    IF sanitized_field_name # to_snake_case(elem.name)
    THEN << Line("field_rename", elem.name, << >>) >>
    ELSE << >>

\* mutant: the identifier before sanitization is compared
ElementRename_BeforeSanitizing(sanitized_field_name, elem) ==
    IF to_snake_case(elem.name) # elem.name
    THEN << Line("field_rename", elem.name, << >>) >>
    ELSE << >>

\* rust_codegen.rs 80-82
ElementRename(sanitized_field_name, elem) ==
    IF sanitized_field_name # elem.name
    THEN << Line("field_rename", elem.name, << >>) >>
    ELSE << >>

\* mutant: min_occurs is not handed to the type mapper
ElementType_DropsMinOccurs(elem) ==
    map_type_with_occurs(elem.type_, None, elem.max_occurs, elem.nillable)

\* rust_codegen.rs 72-77
ElementType(elem) ==
    map_type_with_occurs(elem.type_, Some(elem.min_occurs), elem.max_occurs,
                         elem.nillable)

\* rust_codegen.rs 69-89: the lines of one sequence element
ElementField(elem) ==
    LET field_name == to_snake_case(elem.name)
        sanitized_field_name == sanitize_identifier(field_name)
    IN  ElementRename(sanitized_field_name, elem)
        \o << Line("field", sanitized_field_name, ElementType(elem)) >>

\* rust_codegen.rs 46-65
AttributeFields(complex_type) ==
    Flatten([ i \in DOMAIN complex_type.attributes |->
                AttributeField(complex_type.attributes[i]) ])

\* rust_codegen.rs 68-90
SequenceFields(complex_type) ==
    IF IsSome(complex_type.sequence)
    THEN Flatten([ i \in DOMAIN complex_type.sequence.val.elements |->
                     ElementField(complex_type.sequence.val.elements[i]) ])
    ELSE << >>

\* mutant: the sequence is emitted before the attributes
StructFields_ElementsFirst(complex_type) ==
    SequenceFields(complex_type) \o AttributeFields(complex_type)

\* rust_codegen.rs 45-90: the body of the struct
StructFields(complex_type) ==
    AttributeFields(complex_type) \o SequenceFields(complex_type)

\* rust_codegen.rs 9-97
generate_complex_type(name, complex_type) ==
    LET struct_name == to_pascal_case(name)
    IN  Ok(<< Line("doc", name, << >>), DeriveLine(complex_type) >>
           \o (IF struct_name # name
               THEN << Line("struct_rename", name, << >>) >>
               ELSE << >>)
           \o << Line("struct", struct_name, << >>) >>
           \o StructFields(complex_type)
           \o << Line("close", << >>, << >>) >>)

(***************************************************************************)
(* The state.  The generator: the function that was called, its arguments  *)
(* and what it returned.  The parser: the tokenizer (the open elements,    *)
(* whether the stream has ended), the position of parse_complex_type (pc), *)
(* the counter of its skip loop (depth), the elements parse_sequence has   *)
(* collected, the type being built, the registry of the schema and what    *)
(* the call returned.                                                      *)
(***************************************************************************)
VARIABLES call, args, result

VARIABLES open, eof, pc, depth, elements, complex_type,
          complex_types, returned

genVars == << call, args, result >>

parserVars ==
    << open, eof, pc, depth, elements, complex_type,
       complex_types, returned >>

vars == << genVars, parserVars >>

\* a call of generate_complex_type on a type of at most MaxFields fields
GenerateComplexType ==
    /\ call = "none"
    /\ \E k \in 0..MaxFields, m \in -1..MaxFields :
         /\ k + m <= MaxFields
         /\ \E a \in [1..k -> Attributes], e \in [1..m -> SequenceElements] :
              LET ct == ComplexTypeOf(GeneratedName, a, m, e)
              IN  /\ call' = "generate_complex_type"
                  /\ args' = [ name |-> ct.name,
                               complex_type |-> ct ]
                  /\ result' = generate_complex_type(ct.name,
                                                     ct)
    /\ UNCHANGED parserVars

(***************************************************************************)
(* generator/rust_codegen.rs: generate_simple_type_enum                    *)
(***************************************************************************)
S_red == << "r", "e", "d" >>

S_dark_blue == << "d", "a", "r", "k", "_", "b", "l", "u", "e" >>

S_Color == << "C", "o", "l", "o", "r" >>

\* enum Restriction: the facets the model draws from (a facet carries text,
\* val, or a number, num)
Restrictions ==
    { [ facet |-> "Enumeration", val |-> S_red, num |-> 0 ],
      [ facet |-> "Enumeration", val |-> S_dark_blue, num |-> 0 ],
      [ facet |-> "Pattern", val |-> S_red, num |-> 0 ],
      [ facet |-> "MaxLength", val |-> << >>, num |-> 8 ] }

\* enum SimpleType { Restriction, List, Union }
SimpleTypeOf(kind, restrictions) ==
    [ kind |-> kind, base |-> Q_xs_string, restrictions |-> restrictions ]

SimpleTypes ==
    { SimpleTypeOf("Restriction", r) : r \in SeqsUpTo(Restrictions, MaxFacets) }
    \cup { SimpleTypeOf("List", << >>), SimpleTypeOf("Union", << >>) }

\* mutant: every facet is taken for an enumeration value
Enumerations_EveryFacet(restrictions) ==
    [ i \in DOMAIN restrictions |-> restrictions[i].val ]

\* rust_codegen.rs 107-113: filter_map over the facets
Enumerations(restrictions) ==
    LET IsEnumeration(r) == r.facet = "Enumeration"
        kept == SelectSeq(restrictions, IsEnumeration)
    IN  [ i \in DOMAIN kept |-> kept[i].val ]

\* rust_codegen.rs 124-128: the lines of one variant
VariantLines(val) ==
    << Line("variant_rename", val, << >>),
       Line("variant", to_pascal_case(val), << >>) >>

\* mutant: a type without enumeration is reported as an error
NothingToEmit_Fails == [ ok |-> FALSE, val |-> "unsupported" ]

\* rust_codegen.rs 116 and 134: Ok(None)
NothingToEmit == Ok(None)

\* rust_codegen.rs 100-136
generate_simple_type_enum(name, simple_type) ==
    IF simple_type.kind = "Restriction"
    THEN LET enums == Enumerations(simple_type.restrictions)
         IN  IF Len(enums) = 0 THEN NothingToEmit
             ELSE Ok(Some(
                    << Line("doc_simple", name, << >>),
                       Line("derive",
                            << "Debug", "Clone", "PartialEq", "Serialize",
                               "Deserialize" >>, << >>),
                       Line("enum", to_pascal_case(name), << >>) >>
                    \o Flatten([ i \in DOMAIN enums |-> VariantLines(enums[i]) ])
                    \o << Line("close", << >>, << >>) >>))
    ELSE NothingToEmit

\* a call of generate_simple_type_enum
GenerateSimpleTypeEnum ==
    /\ call = "none"
    /\ \E simple_type \in SimpleTypes :
         /\ call' = "generate_simple_type_enum"
         /\ args' = [ name |-> S_Color, simple_type |-> simple_type ]
         /\ result' = generate_simple_type_enum(S_Color, simple_type)
    /\ UNCHANGED parserVars

(***************************************************************************)
(* parser/wsdl: the service definition model and its lookups (not among    *)
(* the sources at hand; modelled from the specification's sections 3 and   *)
(* 4.2 and from the uses in rust_codegen.rs).                              *)
(***************************************************************************)
S_getAllVersions == << "g", "e", "t", "A", "l", "l", "V", "e", "r", "s", "i", "o", "n", "s" >>

S_getAllVersionsResponse == << "g", "e", "t", "A", "l", "l", "V", "e", "r", "s", "i", "o", "n", "s", "R", "e", "s", "p", "o", "n", "s", "e" >>

Q_tns_getAllVersions == << "t", "n", "s", ":", "g", "e", "t", "A", "l", "l", "V", "e", "r", "s", "i", "o", "n", "s" >>

Q_tns_getAllVersionsResponse == << "t", "n", "s", ":", "g", "e", "t", "A", "l", "l", "V", "e", "r", "s", "i", "o", "n", "s", "R", "e", "s", "p", "o", "n", "s", "e" >>

Q_tns_fault == << "t", "n", "s", ":", "f", "a", "u", "l", "t" >>

S_action == << "u", "r", "n", ":", "g", "e", "t", "A", "l", "l", "V", "e", "r", "s", "i", "o", "n", "s" >>

\* struct MessagePart { element }
MessageParts ==
    [ element : { None, Some(Q_tns_getAllVersions),
                  Some(Q_tns_getAllVersionsResponse) } ]

\* struct Message { name, parts }
Messages ==
    [ name : { S_getAllVersions, S_getAllVersionsResponse },
      parts : SeqsUpTo(MessageParts, MaxParts) ]

\* struct BindingOperation { name, soap_action }
BindingOperations ==
    { << >>, << [ name |-> S_getAllVersions, soap_action |-> Some(S_action) ] >> }

\* the first of a set of positions, 0 when there is none
FirstIn(positions) ==
    IF positions = { } THEN 0
    ELSE CHOOSE i \in positions : \A j \in positions : i <= j

\* WsdlModel::find_message: the first message named by the reference's local
\* name
find_message(wsdl, qname) ==
    LET i == FirstIn({ k \in DOMAIN wsdl.messages :
                         wsdl.messages[k].name = local_name(qname) })
    IN  IF i = 0 THEN None ELSE Some(wsdl.messages[i])

\* WsdlModel::find_soap_action: the action of the first binding operation of
\* that name
find_soap_action(wsdl, operation_name) ==
    LET i == FirstIn({ k \in DOMAIN wsdl.binding_operations :
                         wsdl.binding_operations[k].name = operation_name })
    IN  IF i = 0 THEN None ELSE wsdl.binding_operations[i].soap_action

(***************************************************************************)
(* generator/rust_codegen.rs: generate_operation_method                    *)
(***************************************************************************)
LF == "\n"

\* str::lines: the text between line feeds
RECURSIVE lines(_)
lines(doc) ==
    LET i == FirstIn({ k \in DOMAIN doc : doc[k] = LF })
    IN  IF Len(doc) = 0 THEN << >>
        ELSE IF i = 0 THEN << doc >>
        ELSE << SubSeq(doc, 1, i - 1) >> \o lines(SubSeq(doc, i + 1, Len(doc)))

\* str::trim: without leading and trailing white space
RECURSIVE trim(_)
trim(s) ==
    IF Len(s) = 0 THEN s
    ELSE IF Head(s) = " " THEN trim(Tail(s))
    ELSE IF s[Len(s)] = " " THEN trim(SubSeq(s, 1, Len(s) - 1))
    ELSE s

\* rust_codegen.rs 179-188: the documentation, line by line, blank lines
\* left out
DocumentationLines(operation) ==
    IF IsSome(operation.documentation)
    THEN LET ls == lines(operation.documentation.val)
             NotBlank(l) == Len(trim(l)) # 0
             kept == SelectSeq(ls, NotBlank)
         IN  << Line("doc_blank", << >>, << >>) >>
             \o [ i \in DOMAIN kept |-> Line("doc_line", trim(kept[i]), << >>) ]
    ELSE << >>

S_unit == << "(", ")" >>

\* mutant: the last part of the message is taken
FirstPart_Last(message) ==
    IF Len(message.parts) = 0 THEN None
    ELSE Some(message.parts[Len(message.parts)])

\* rust_codegen.rs 161: m.parts.first()
FirstPart(message) ==
    IF Len(message.parts) = 0 THEN None ELSE Some(message.parts[1])

\* rust_codegen.rs 150-170: the payload type a message reference resolves to
PayloadType(wsdl, reference) ==
    LET msg == IF IsSome(reference) THEN find_message(wsdl, reference.val)
               ELSE None
        part == IF IsSome(msg) THEN FirstPart(msg.val) ELSE None
        element == IF IsSome(part) THEN part.val.element ELSE None
    IN  IF IsSome(element) THEN to_pascal_case(local_name(element.val))
        ELSE S_unit

\* rust_codegen.rs 139-225
generate_operation_method(operation, wsdl) ==
    LET method_name == to_snake_case(operation.name)
        input_type == PayloadType(wsdl, operation.input)
        output_type == PayloadType(wsdl, operation.output)
        soap_action == find_soap_action(wsdl, operation.name)
    IN  Ok(<< Line("doc_call", operation.name, << >>) >>
           \o DocumentationLines(operation)
           \o (IF input_type # S_unit
               THEN << Line("doc_arguments", input_type, << >>) >>
               ELSE << >>)
           \o << Line("tracing", << >>, << >>),
                 Line("fn", method_name, << input_type, output_type >>),
                 Line("call", operation.name, soap_action),
                 Line("fn_close", << >>, << >>) >>)

\* struct PortTypeOperation { name, input, output, faults, documentation }
PortTypeOperations ==
    [ name : { S_getAllVersions },
      input : { None, Some(Q_tns_getAllVersions) },
      output : { None, Some(Q_tns_getAllVersionsResponse) },
      faults : { << >> },
      documentation : { None, Some(<< " ", "a", LF, " ", LF, "b" >>) } ]

\* a call of generate_operation_method
GenerateOperationMethod ==
    /\ call = "none"
    /\ \E operation \in PortTypeOperations,
          messages \in SeqsUpTo(Messages, MaxMessages),
          binding_operations \in BindingOperations :
         LET wsdl == [ messages |-> messages,
                       binding_operations |-> binding_operations ]
         IN  /\ call' = "generate_operation_method"
             /\ args' = [ operation |-> operation, wsdl |-> wsdl ]
             /\ result' = generate_operation_method(operation, wsdl)
    /\ UNCHANGED parserVars

(***************************************************************************)
(* parser/mod.rs: a QName is taken apart.                                  *)
(***************************************************************************)
\* the characters of the texts a QName is made from
NameChars == { "a", "b", "c", ":" }

\* QName::new(text), then prefix() and local_name(), on a text of at most
\* MaxName characters
QNameParts ==
    /\ call = "none"
    /\ \E n \in 0..MaxName :
         \E text \in [ 1..n -> NameChars ] :
             /\ call' = "QName"
             /\ args' = [ text |-> text ]
             /\ result' = [ prefix |-> prefix(text),
                            local_name |-> local_name(text) ]
    /\ UNCHANGED parserVars

(***************************************************************************)
(* The tokenizer (quick_xml::Reader), as the parser sees it: read_event_into *)
(* delivers the next event of a well-nested stream, or end-of-stream, or a *)
(* stream error.  open is the stack of the elements that are open.         *)
(***************************************************************************)
LocalNames ==
    { "sequence", "all", "choice", "attribute", "element" }

NoAttrs == [ name |-> None, type |-> None, use |-> None ]

S_required == << "r", "e", "q", "u", "i", "r", "e", "d" >>

S_prohibited == << "p", "r", "o", "h", "i", "b", "i", "t", "e", "d" >>

S_optional == << "o", "p", "t", "i", "o", "n", "a", "l" >>

\* the attributes of an <attribute> tag: name, type and use, each present or
\* not; a tag without name, a tag without type, and every use on a full tag
AttributeTags ==
    { [ name |-> None, type |-> Some(Q_xs_string), use |-> None ],
      [ name |-> Some(S_key), type |-> None, use |-> Some(S_required) ] }
    \cup
    [ name : { Some(S_key) }, type : { Some(Q_xs_string) },
      use : { None, Some(S_required), Some(S_prohibited), Some(S_optional) } ]

\* the attributes of an <element> tag
ElementTags ==
    [ name : { Some(S_userName), Some(S_Code) }, type : { Some(Q_xs_string) },
      use : { None } ]

TagsOf(n) ==
    IF n = "attribute" THEN AttributeTags
    ELSE IF n = "element" THEN ElementTags
    ELSE { NoAttrs }

Event(kind, n, attrs) == [ kind |-> kind, name |-> n, attrs |-> attrs ]

Eof == Event("Eof", "", NoAttrs)

StreamError == Event("Error", "", NoAttrs)

\* what read_event_into can return when the elements of stack are open: the
\* end of the innermost open element, an empty element, the start of an
\* element (up to MaxOpen open elements), text, the end of the stream (at any
\* point: the input may be truncated) or a stream error; once the stream has
\* ended, its end again
NextEvents(stack, ended) ==
    IF ended THEN { Eof }
    ELSE { Eof, StreamError, Event("Text", "", NoAttrs) }
         \cup (IF Len(stack) > 0
               THEN { Event("End", stack[Len(stack)], NoAttrs) }
               ELSE { })
         \cup UNION { { Event("Empty", n, a) : a \in TagsOf(n) } :
                       n \in LocalNames }
         \cup (IF Len(stack) < MaxOpen
               THEN UNION { { Event("Start", n, a) : a \in TagsOf(n) } :
                            n \in LocalNames }
               ELSE { })

\* the open elements after the event; none once the stream has ended
Opened(stack, ev) ==
    CASE ev.kind = "Start" -> Append(stack, ev.name)
      [] ev.kind = "End" -> SubSeq(stack, 1, Len(stack) - 1)
      [] ev.kind = "Eof" -> << >>
      [] OTHER -> stack

(***************************************************************************)
(* parser/xsd/complex_type.rs: parse_attribute                             *)
(***************************************************************************)
\* a usage that knows required only
UseOf_RequiredOnly(use_attr) ==
    IF use_attr = Some(S_required) THEN "Required" ELSE "Optional"

\* complex_type.rs 125-129
UseOf(use_attr) ==
    IF use_attr = Some(S_required) THEN "Required"
    ELSE IF use_attr = Some(S_prohibited) THEN "Prohibited"
    ELSE "Optional"

\* complex_type.rs 111-135: Ok(Some(attribute)) or Ok(None)
parse_attribute(e) ==
    IF IsSome(e.attrs.name) /\ IsSome(e.attrs.type)
    THEN Some([ name |-> e.attrs.name.val, type_ |-> e.attrs.type.val,
                use_ |-> UseOf(e.attrs.use) ])
    ELSE None

\* the attributes and the elements a type holds
FieldsOf(ct) ==
    Len(ct.attributes)
        + (IF IsSome(ct.sequence) THEN Len(ct.sequence.val.elements) ELSE 0)

\* complex_type.rs 57-59 and 63-65: the attribute is pushed, if there is one
PushAttribute(ct, e) ==
    IF IsSome(parse_attribute(e))
    THEN [ ct EXCEPT !.attributes = Append(@, parse_attribute(e).val) ]
    ELSE ct

\* a use that is none of the three of the schema language
S_Required == << "R", "e", "q", "u", "i", "r", "e", "d" >>

\* the attribute tags parse_attribute is applied to: name, type and use, each
\* present or not, the use one of the three or another text
AttributeInputs ==
    [ name : { None, Some(S_key) },
      type : { None, Some(Q_xs_string) },
      use : { None, Some(S_required), Some(S_prohibited), Some(S_optional),
              Some(S_Required) } ]

\* complex_type.rs 55-60, for the attribute tags of a body in document order
RECURSIVE PushAttributes(_, _)
PushAttributes(ct, tags) ==
    IF tags = << >> THEN ct
    ELSE PushAttributes(PushAttribute(ct, Event("Empty", "attribute", Head(tags))),
                        Tail(tags))

\* parse_attribute on each of at most MaxTags attribute tags of a body, the
\* attributes it yields pushed to the type
ParseAttributes ==
    /\ call = "none"
    /\ \E n \in 0..MaxTags :
         \E tags \in [ 1..n -> AttributeInputs ] :
             /\ call' = "parse_attribute"
             /\ args' = [ tags |-> tags ]
             /\ result' = PushAttributes(DefaultComplexType, tags).attributes
    /\ UNCHANGED parserVars

(***************************************************************************)
(* parser/xsd/sequence.rs: parse_sequence and parse_all (not among the     *)
(* sources at hand; modelled from the specification's sections 3 and 4.1:  *)
(* the elements of the group are collected, in document order, up to the   *)
(* end event of the group or the end of the stream).                       *)
(***************************************************************************)
SequenceElementOf(e) ==
    [ name |-> e.attrs.name.val, type_ |-> e.attrs.type.val,
      min_occurs |-> 1, max_occurs |-> None, nillable |-> FALSE ]

(***************************************************************************)
(* parser/xsd/complex_type.rs: parse_complex_type, one step per event read *)
(***************************************************************************)
\* read_event_into returned ev
Deliver(ev) ==
    /\ open' = Opened(open, ev)
    /\ eof' = (eof \/ ev.kind = "Eof")

Readable == NextEvents(open, eof)

\* the name attribute of the <complexType> tag: absent, empty or a name
ComplexTypeTags ==
    { [ NoAttrs EXCEPT !.name = n ] :
        n \in { None, Some(<< >>) } \cup { Some(t) : t \in TypeNames } }

\* complex_type.rs 28-37: the call, on the start tag e of a complexType
ParseComplexType ==
    /\ pc = "idle"
    /\ returned = "none"
    /\ \E a \in ComplexTypeTags :
         /\ complex_type' =
                IF IsSome(a.name)
                THEN [ DefaultComplexType EXCEPT !.name = a.name.val ]
                ELSE DefaultComplexType
    /\ open' = << "complexType" >>
    /\ pc' = "main"
    /\ returned' = "none"
    /\ UNCHANGED << eof, depth, elements, complex_types, genVars >>

\* how reading an attribute of a start tag the tokenizer has delivered can
\* fail (complex_type.rs 29-31, 111-121): try_get_attribute(..)? returns the
\* error of a malformed attribute list, or unescape_value().unwrap() panics on
\* a value that cannot be unescaped
AttributeFailures == { "AttrErr", "Panic" }

\* complex_type.rs 29-31: reading the name attribute of the start tag fails,
\* and so does the call
NameError ==
    /\ pc = "idle"
    /\ returned = "none"
    /\ open' = << "complexType" >>
    /\ pc' = "failed"
    /\ returned' \in AttributeFailures
    /\ UNCHANGED << eof, depth, elements, complex_type, complex_types,
                    genVars >>

\* a registration that keeps the entry a name already has
Registered_KeepsFirst(ct) ==
    IF ct.name # << >> /\ ct.name \notin DOMAIN complex_types
    THEN [ n \in DOMAIN complex_types \cup { ct.name } |->
             IF n = ct.name THEN ct ELSE complex_types[n] ]
    ELSE complex_types

\* a registration that does not look at the name
Registered_AlsoUnnamed(ct) ==
    [ n \in DOMAIN complex_types \cup { ct.name } |->
        IF n = ct.name THEN ct ELSE complex_types[n] ]

\* complex_type.rs 93-98: the type is registered under its name, if it has one
Registered(ct) ==
    IF ct.name # << >>
    THEN [ n \in DOMAIN complex_types \cup { ct.name } |->
             IF n = ct.name THEN ct ELSE complex_types[n] ]
    ELSE complex_types

\* complex_type.rs 93-98: the end of the call; complex_type keeps the type the
\* call has built, the other locals are gone
Return ==
    /\ complex_types' = Registered(complex_type)
    /\ pc' = "idle"
    /\ returned' = "Ok"
    /\ depth' = 0
    /\ elements' = << >>

\* complex_type.rs 40-42: parse_sequence is entered
MainSequenceStart ==
    /\ pc = "main"
    /\ \E ev \in Readable :
         /\ ev.kind = "Start" /\ ev.name = "sequence"
         /\ Deliver(ev)
    /\ pc' = "sequence"
    /\ elements' = << >>
    /\ UNCHANGED << depth, complex_type, complex_types, returned, genVars >>

\* complex_type.rs 43-46: an empty sequence group
MainSequenceEmpty ==
    /\ pc = "main"
    /\ \E ev \in Readable :
         /\ ev.kind = "Empty" /\ ev.name = "sequence"
         /\ Deliver(ev)
    /\ complex_type' =
           [ complex_type EXCEPT !.sequence = Some([ elements |-> << >> ]) ]
    /\ UNCHANGED << pc, depth, elements, complex_types, returned, genVars >>

\* complex_type.rs 47-50: parse_all is entered
MainAllStart ==
    /\ pc = "main"
    /\ \E ev \in Readable :
         /\ ev.kind = "Start" /\ ev.name = "all"
         /\ Deliver(ev)
    /\ pc' = "all"
    /\ elements' = << >>
    /\ UNCHANGED << depth, complex_type, complex_types, returned, genVars >>

\* complex_type.rs 51-54: an empty all group
MainAllEmpty ==
    /\ pc = "main"
    /\ \E ev \in Readable :
         /\ ev.kind = "Empty" /\ ev.name = "all"
         /\ Deliver(ev)
    /\ complex_type' =
           [ complex_type EXCEPT !.sequence = Some([ elements |-> << >> ]) ]
    /\ UNCHANGED << pc, depth, elements, complex_types, returned, genVars >>

\* complex_type.rs 55-60
MainAttributeEmpty ==
    /\ pc = "main"
    /\ \E ev \in Readable :
         /\ ev.kind = "Empty" /\ ev.name = "attribute"
         /\ FieldsOf(PushAttribute(complex_type, ev)) <= MaxContent
         /\ Deliver(ev)
         /\ complex_type' = PushAttribute(complex_type, ev)
    /\ UNCHANGED << pc, depth, elements, complex_types, returned, genVars >>

\* complex_type.rs 61-68: the attribute is taken and the skip begins
MainAttributeStart ==
    /\ pc = "main"
    /\ \E ev \in Readable :
         /\ ev.kind = "Start" /\ ev.name = "attribute"
         /\ FieldsOf(PushAttribute(complex_type, ev)) <= MaxContent
         /\ Deliver(ev)
         /\ complex_type' = PushAttribute(complex_type, ev)
    /\ depth' = 1
    /\ pc' = "skip"
    /\ UNCHANGED << elements, complex_types, returned, genVars >>

\* complex_type.rs 57 and 63: parse_attribute(&e) fails (111-121: reading
\* name, type or use of the tag), and so does the call
MainAttributeError ==
    /\ pc = "main"
    /\ \E ev \in Readable :
         /\ ev.kind \in { "Start", "Empty" } /\ ev.name = "attribute"
         /\ Deliver(ev)
    /\ pc' = "failed"
    /\ returned' \in AttributeFailures
    /\ depth' = 0
    /\ elements' = << >>
    /\ complex_type' = DefaultComplexType
    /\ UNCHANGED << complex_types, genVars >>

\* complex_type.rs 86: the end of the complexType
MainEnd ==
    /\ pc = "main"
    /\ \E ev \in Readable :
         /\ ev.kind = "End" /\ ev.name = "complexType"
         /\ Deliver(ev)
    /\ Return
    /\ UNCHANGED << complex_type, genVars >>

\* complex_type.rs 87: the end of the stream
MainEof ==
    /\ pc = "main"
    /\ Eof \in Readable
    /\ Deliver(Eof)
    /\ Return
    /\ UNCHANGED << complex_type, genVars >>

\* the events the main loop has an arm for
MainHandles(ev) ==
    \/ ev.kind \in { "Start", "Empty" }
         /\ ev.name \in { "sequence", "all", "attribute" }
    \/ ev.kind = "End" /\ ev.name = "complexType"
    \/ ev.kind \in { "Eof", "Error" }

\* complex_type.rs 88: any other event
MainOther ==
    /\ pc = "main"
    /\ \E ev \in Readable :
         /\ ~MainHandles(ev)
         /\ Deliver(ev)
    /\ UNCHANGED << pc, depth, elements, complex_type, complex_types,
                    returned, genVars >>

\* a skip loop that does not count the start of a nested attribute
SkipAttributeStart_NotCounted ==
    /\ pc = "skip"
    /\ \E ev \in Readable :
         /\ ev.kind = "Start" /\ ev.name = "attribute"
         /\ Deliver(ev)
    /\ UNCHANGED << pc, depth, elements, complex_type, complex_types,
                    returned, genVars >>

\* complex_type.rs 71-73
SkipAttributeStart ==
    /\ pc = "skip"
    /\ \E ev \in Readable :
         /\ ev.kind = "Start" /\ ev.name = "attribute"
         /\ Deliver(ev)
    /\ depth' = depth + 1
    /\ UNCHANGED << pc, elements, complex_type, complex_types, returned, genVars >>

\* a skip that ends at the first end event of an attribute, whatever the depth
SkipAttributeEnd_NoDepthCheck ==
    /\ pc = "skip"
    /\ \E ev \in Readable :
         /\ ev.kind = "End" /\ ev.name = "attribute"
         /\ Deliver(ev)
    /\ depth' = depth - 1
    /\ pc' = "main"
    /\ UNCHANGED << elements, complex_type, complex_types, returned, genVars >>

\* complex_type.rs 74-79
SkipAttributeEnd ==
    /\ pc = "skip"
    /\ \E ev \in Readable :
         /\ ev.kind = "End" /\ ev.name = "attribute"
         /\ Deliver(ev)
    /\ depth' = depth - 1
    /\ pc' = IF depth - 1 = 0 THEN "main" ELSE "skip"
    /\ UNCHANGED << elements, complex_type, complex_types, returned, genVars >>

\* complex_type.rs 80
SkipEof ==
    /\ pc = "skip"
    /\ Eof \in Readable
    /\ Deliver(Eof)
    /\ depth' = 0
    /\ pc' = "main"
    /\ UNCHANGED << elements, complex_type, complex_types, returned, genVars >>

\* complex_type.rs 81: any other event
SkipOther ==
    /\ pc = "skip"
    /\ \E ev \in Readable :
         /\ ~(ev.kind \in { "Start", "End" } /\ ev.name = "attribute")
         /\ ev.kind \notin { "Eof", "Error" }
         /\ Deliver(ev)
    /\ UNCHANGED << pc, depth, elements, complex_type, complex_types,
                    returned, genVars >>

\* parse_sequence / parse_all: an element of the group
GroupElement ==
    /\ pc \in { "sequence", "all" }
    /\ \E ev \in Readable :
         /\ ev.kind \in { "Start", "Empty" } /\ ev.name = "element"
         /\ Len(complex_type.attributes) + Len(elements) < MaxContent
         /\ Deliver(ev)
         /\ elements' = Append(elements, SequenceElementOf(ev))
    /\ UNCHANGED << pc, depth, complex_type, complex_types, returned, genVars >>

\* complex_type.rs 41 and 49: parse_sequence / parse_all returns at the end
\* event of the group, and its result is assigned to the sequence slot
GroupEnd ==
    /\ pc \in { "sequence", "all" }
    /\ \E ev \in Readable :
         /\ ev.kind = "End" /\ ev.name = pc
         /\ Deliver(ev)
    /\ complex_type' =
           [ complex_type EXCEPT !.sequence = Some([ elements |-> elements ]) ]
    /\ elements' = << >>
    /\ pc' = "main"
    /\ UNCHANGED << depth, complex_types, returned, genVars >>

\* parse_sequence / parse_all returns at the end of the stream
GroupEof ==
    /\ pc \in { "sequence", "all" }
    /\ Eof \in Readable
    /\ Deliver(Eof)
    /\ complex_type' =
           [ complex_type EXCEPT !.sequence = Some([ elements |-> elements ]) ]
    /\ elements' = << >>
    /\ pc' = "main"
    /\ UNCHANGED << depth, complex_types, returned, genVars >>

\* parse_sequence / parse_all: any other event
GroupOther ==
    /\ pc \in { "sequence", "all" }
    /\ \E ev \in Readable :
         /\ ~(ev.kind \in { "Start", "Empty" } /\ ev.name = "element")
         /\ ~(ev.kind = "End" /\ ev.name = pc)
         /\ ev.kind \notin { "Eof", "Error" }
         /\ Deliver(ev)
    /\ UNCHANGED << pc, depth, elements, complex_type, complex_types,
                    returned, genVars >>

\* complex_type.rs 39 and 70: read_event_into(..)? fails, and so does the call
ReadError ==
    /\ pc \in { "main", "skip", "sequence", "all" }
    /\ StreamError \in Readable
    /\ Deliver(StreamError)
    /\ pc' = "failed"
    /\ returned' = "Err"
    /\ depth' = 0
    /\ elements' = << >>
    /\ complex_type' = DefaultComplexType
    /\ UNCHANGED << complex_types, genVars >>

Init ==
    /\ call = "none"
    /\ args = << >>
    /\ result = << >>
    /\ open = << >>
    /\ eof = FALSE
    /\ pc = "idle"
    /\ depth = 0
    /\ elements = << >>
    /\ complex_type = DefaultComplexType
    /\ complex_types = << >>
    /\ returned = "none"

ParseNext ==
    \/ ParseComplexType
    \/ NameError
    \/ MainSequenceStart
    \/ MainSequenceEmpty
    \/ MainAllStart
    \/ MainAllEmpty
    \/ MainAttributeEmpty
    \/ MainAttributeStart
    \/ MainAttributeError
    \/ MainEnd
    \/ MainEof
    \/ MainOther
    \/ SkipAttributeStart
    \/ SkipAttributeEnd
    \/ SkipEof
    \/ SkipOther
    \/ GroupElement
    \/ GroupEnd
    \/ GroupEof
    \/ GroupOther
    \/ ReadError

ParseSpec == Init /\ [][ParseNext]_vars

\* complex_type.rs 28-37: a further call, on the start tag of the next
\* complexType of the schema, while the registry holds fewer than MaxTypes types
ParseAnother ==
    /\ pc = "idle"
    /\ returned = "Ok"
    /\ ~eof
    /\ Cardinality(DOMAIN complex_types) < MaxTypes
    /\ \E a \in ComplexTypeTags :
         /\ complex_type' =
                IF IsSome(a.name)
                THEN [ DefaultComplexType EXCEPT !.name = a.name.val ]
                ELSE DefaultComplexType
    /\ open' = << "complexType" >>
    /\ pc' = "main"
    /\ returned' = "none"
    /\ UNCHANGED << eof, depth, elements, complex_types, genVars >>

\* complex_type.rs 29-31: reading the name attribute fails in a further call
AnotherNameError ==
    /\ pc = "idle"
    /\ returned = "Ok"
    /\ ~eof
    /\ Cardinality(DOMAIN complex_types) < MaxTypes
    /\ open' = << "complexType" >>
    /\ pc' = "failed"
    /\ returned' \in AttributeFailures
    /\ UNCHANGED << eof, depth, elements, complex_type, complex_types,
                    genVars >>

\* the complexTypes of a schema, parsed one after the other
SchemaNext ==
    \/ ParseNext
    \/ ParseAnother
    \/ AnotherNameError

SchemaSpec == Init /\ [][SchemaNext]_vars

\* the end of the stream is read
EndOfStream == MainEof \/ SkipEof \/ GroupEof

\* parse_complex_type on a finite stream: as long as the parser reads, the
\* tokenizer comes to the end of the stream
ParseLive == ParseSpec /\ WF_vars(EndOfStream)

\* the generator
Next ==
    \/ GenerateComplexType
    \/ GenerateSimpleTypeEnum
    \/ GenerateOperationMethod
    \/ QNameParts
    \/ ParseAttributes

Spec == Init /\ [][Next]_vars

(***************************************************************************)
(* Reading the emitted struct back: its field lines, in order, and the     *)
(* rename annotation that precedes a field line, if any.                   *)
(***************************************************************************)
IsStructCall == call = "generate_complex_type" /\ result.ok

Emitted == result.val

InAttributes == args.complex_type.attributes

InElements ==
    IF IsSome(args.complex_type.sequence)
    THEN args.complex_type.sequence.val.elements
    ELSE << >>

\* the position in the emitted text of the k-th field line
FieldPos(k) ==
    CHOOSE i \in DOMAIN Emitted :
        /\ Emitted[i].kind = "field"
        /\ Cardinality({ j \in 1..i : Emitted[j].kind = "field" }) = k

FieldCount == Cardinality({ i \in DOMAIN Emitted : Emitted[i].kind = "field" })

FieldIdent(k) == Emitted[FieldPos(k)].a

FieldType(k) == Emitted[FieldPos(k)].b

HasRename(k) == Emitted[FieldPos(k) - 1].kind = "field_rename"

RenameOf(k) == Emitted[FieldPos(k) - 1].a

\* the field line of the j-th sequence element
ElemField(j) == Len(InAttributes) + j

AbsentOrOne(max_occurs) == max_occurs \in { None, Some(<< "1" >>) }

\* C1: every sequence element with base type T is emitted as Option<T> when
\* minOccurs = 0 and maxOccurs is absent or 1; as a Vec (Vec<T> or
\* Option<Vec<T>>) when maxOccurs = "unbounded", and as Option<Vec<T>> when
\* minOccurs = 0 as well; as the bare T when minOccurs >= 1, maxOccurs is
\* absent or 1 and the element is not nillable.
C1_ElementOccursMapping ==
    IsStructCall =>
        /\ FieldCount = Len(InAttributes) + Len(InElements)
        /\ \A j \in DOMAIN InElements :
             LET e == InElements[j]
                 T == map_type(e.type_)
                 ty == FieldType(ElemField(j))
             IN  /\ (e.min_occurs = 0 /\ AbsentOrOne(e.max_occurs))
                        => ty = OptionOf(T)
                 /\ e.max_occurs = Some(S_unbounded)
                        => ty \in { VecOf(T), OptionOf(VecOf(T)) }
                 /\ (e.max_occurs = Some(S_unbounded) /\ e.min_occurs = 0)
                        => ty = OptionOf(VecOf(T))
                 /\ (e.min_occurs >= 1 /\ AbsentOrOne(e.max_occurs)
                     /\ ~e.nillable)
                        => ty = T

\* an "items" element with minOccurs = 0, maxOccurs = "unbounded" was emitted
\* as Option<Vec<String>>, next to an optional and a plain element
C1_Witness ==
    /\ IsStructCall
    /\ \E j \in DOMAIN InElements :
         /\ InElements[j].min_occurs = 0
         /\ InElements[j].max_occurs = Some(S_unbounded)
         /\ FieldType(ElemField(j)) = OptionOf(VecOf(<< "S", "t", "r", "i", "n", "g" >>))
    /\ \E j \in DOMAIN InElements :
         /\ InElements[j].min_occurs = 0
         /\ InElements[j].max_occurs = None
         /\ FieldType(ElemField(j)) = OptionOf(<< "S", "t", "r", "i", "n", "g" >>)
    /\ \E j \in DOMAIN InElements :
         /\ InElements[j].min_occurs = 1
         /\ ~InElements[j].nillable
         /\ FieldType(ElemField(j)) = << "M", "y", "T", "y", "p", "e" >>

\* C2: every attribute is emitted as exactly one field, of the mapped type
\* when its usage is Required and of Option<mapped type> when it is Optional
\* or Prohibited.
C2_AttributeUsageMapping ==
    IsStructCall =>
        /\ FieldCount = Len(InAttributes) + Len(InElements)
        /\ \A i \in DOMAIN InAttributes :
             LET attr == InAttributes[i]
             IN  /\ FieldIdent(i) = sanitize_identifier(to_snake_case(attr.name))
                 /\ attr.use_ = "Required"
                        => FieldType(i) = map_type(attr.type_)
                 /\ attr.use_ \in { "Optional", "Prohibited" }
                        => FieldType(i) = OptionOf(map_type(attr.type_))

\* a Required and a Prohibited attribute were emitted, as String and as
\* Option<String>
C2_Witness ==
    /\ IsStructCall
    /\ \E i \in DOMAIN InAttributes :
         InAttributes[i].use_ = "Required" /\ FieldType(i) = << "S", "t", "r", "i", "n", "g" >>
    /\ \E i \in DOMAIN InAttributes :
         /\ InAttributes[i].use_ = "Prohibited"
         /\ FieldType(i) = OptionOf(<< "S", "t", "r", "i", "n", "g" >>)

DerivesDefault ==
    \E i \in DOMAIN Emitted :
        Emitted[i].kind = "derive" /\ "Default" \in Range(Emitted[i].a)

\* C3: the struct derives Default exactly when the type has no attribute and
\* its sequence is absent or has no element.
C3_DefaultIffNoFields ==
    IsStructCall =>
        (DerivesDefault <=>
            (Len(InAttributes) = 0 /\ Len(InElements) = 0))

\* a type whose sequence is present and empty, with no attribute, derives
\* Default
C3_Witness ==
    /\ IsStructCall
    /\ IsSome(args.complex_type.sequence)
    /\ Len(InElements) = 0
    /\ Len(InAttributes) = 0
    /\ DerivesDefault

\* C4: the serialized name of every field is the schema name: an attribute
\* field always carries the rename "@" + name, and an element field either
\* carries a rename equal to the element's name or has an identifier equal
\* to the element's name.
C4_SerializedNameIsSchemaName ==
    IsStructCall =>
        /\ FieldCount = Len(InAttributes) + Len(InElements)
        /\ \A i \in DOMAIN InAttributes :
             HasRename(i) /\ RenameOf(i) = << "@" >> \o InAttributes[i].name
        /\ \A j \in DOMAIN InElements :
             IF HasRename(ElemField(j))
             THEN RenameOf(ElemField(j)) = InElements[j].name
             ELSE FieldIdent(ElemField(j)) = InElements[j].name

\* userName became user_name renamed "userName", Code became code renamed
\* "Code", and attribute key is renamed "@key"
C4_Witness ==
    /\ IsStructCall
    /\ \E j \in DOMAIN InElements :
         /\ InElements[j].name = S_userName
         /\ FieldIdent(ElemField(j)) = << "u", "s", "e", "r", "_", "n", "a", "m", "e" >>
         /\ HasRename(ElemField(j))
         /\ RenameOf(ElemField(j)) = S_userName
    /\ \E j \in DOMAIN InElements :
         /\ InElements[j].name = S_Code
         /\ FieldIdent(ElemField(j)) = << "c", "o", "d", "e" >>
         /\ RenameOf(ElemField(j)) = S_Code
    /\ \E i \in DOMAIN InAttributes :
         InAttributes[i].name = S_key /\ RenameOf(i) = << "@", "k", "e", "y" >>

\* C5: an element field has no rename only when its identifier equals the
\* snake_case of the element's name; when case conversion changed the name
\* or sanitization changed the identifier, the field has a rename to the
\* element's name.
C5_RenameOmittedOnlyWhenIdentical ==
    IsStructCall =>
        /\ FieldCount = Len(InAttributes) + Len(InElements)
        /\ \A j \in DOMAIN InElements :
             LET original == InElements[j].name
                 converted == to_snake_case(original)
                 ident == FieldIdent(ElemField(j))
             IN  /\ ~HasRename(ElemField(j)) => ident = converted
                 /\ (converted # original \/ ident # converted)
                        => /\ HasRename(ElemField(j))
                           /\ RenameOf(ElemField(j)) = original

\* an element named by a reserved word, type, was emitted as type_ with a
\* rename to "type", and an element named items was emitted with no rename
C5_Witness ==
    /\ IsStructCall
    /\ \E j \in DOMAIN InElements :
         /\ InElements[j].name = S_type
         /\ FieldIdent(ElemField(j)) = << "t", "y", "p", "e", "_" >>
         /\ HasRename(ElemField(j))
         /\ RenameOf(ElemField(j)) = S_type
    /\ \E j \in DOMAIN InElements :
         /\ InElements[j].name = S_items
         /\ FieldIdent(ElemField(j)) = S_items
         /\ ~HasRename(ElemField(j))

\* a field line is an attribute's when its rename starts with the marker "@"
IsAttributeField(k) == HasRename(k) /\ Head(RenameOf(k)) = "@"

\* C9: the attribute fields come first, in declaration order, then the
\* element fields in document order; no element field precedes an attribute
\* field.
C9_AttributesThenElements ==
    IsStructCall =>
        /\ FieldCount = Len(InAttributes) + Len(InElements)
        /\ \A i \in DOMAIN InAttributes :
             /\ IsAttributeField(i)
             /\ RenameOf(i) = << "@" >> \o InAttributes[i].name
        /\ \A j \in DOMAIN InElements :
             /\ ~IsAttributeField(ElemField(j))
             /\ FieldIdent(ElemField(j))
                    = sanitize_identifier(to_snake_case(InElements[j].name))
        /\ \A k1, k2 \in 1..FieldCount :
             (k1 < k2 /\ IsAttributeField(k2)) => IsAttributeField(k1)

\* two different attributes and two different elements were emitted, in order
C9_Witness ==
    /\ IsStructCall
    /\ Len(InAttributes) = 2
    /\ InAttributes[1].name # InAttributes[2].name
    /\ Len(InElements) = 1
    /\ IsAttributeField(1) /\ IsAttributeField(2) /\ ~IsAttributeField(3)
    /\ RenameOf(1) = << "@" >> \o InAttributes[1].name
    /\ RenameOf(2) = << "@" >> \o InAttributes[2].name
    /\ FieldIdent(3) = to_snake_case(InElements[1].name)

(***************************************************************************)
(* Reading the emitted enum back.                                          *)
(***************************************************************************)
IsEnumCall == call = "generate_simple_type_enum"

InFacets == args.simple_type.restrictions

\* the positions of the Enumeration facets of the argument
EnumerationFacets ==
    IF args.simple_type.kind = "Restriction"
    THEN { i \in DOMAIN InFacets : InFacets[i].facet = "Enumeration" }
    ELSE { }

\* the position of the k-th Enumeration facet
EnumerationFacet(k) ==
    CHOOSE i \in EnumerationFacets :
        Cardinality({ j \in EnumerationFacets : j <= i }) = k

EnumText == result.val.val

VariantPositions == { i \in DOMAIN EnumText : EnumText[i].kind = "variant" }

\* the position in the emitted text of the k-th variant line
VariantPos(k) ==
    CHOOSE i \in VariantPositions :
        Cardinality({ j \in VariantPositions : j <= i }) = k

\* C7: generate_simple_type_enum never fails; it returns Ok(None) for a List,
\* a Union and a Restriction without Enumeration facet, and an enum exactly
\* for a Restriction with at least one Enumeration facet.
C7_NoEnumerationIsNoError ==
    IsEnumCall =>
        /\ result.ok
        /\ IsSome(result.val) <=> (EnumerationFacets # { })
        /\ args.simple_type.kind \in { "List", "Union" } => result.val = None

\* a Restriction that carries facets, none of them an Enumeration, returned
\* Ok(None)
C7_Witness ==
    /\ IsEnumCall
    /\ args.simple_type.kind = "Restriction"
    /\ Len(InFacets) >= 2
    /\ EnumerationFacets = { }
    /\ result = Ok(None)

\* C8: the enum has one variant per Enumeration facet, in the order of the
\* facets, and none for the other facets; a variant is the PascalCase of the
\* facet's value and the line before it is its rename to the literal value.
C8_OneVariantPerEnumeration ==
    (IsEnumCall /\ result.ok /\ IsSome(result.val)) =>
        /\ Cardinality(VariantPositions) = Cardinality(EnumerationFacets)
        /\ Cardinality({ i \in DOMAIN EnumText :
                           EnumText[i].kind = "variant_rename" })
               = Cardinality(EnumerationFacets)
        /\ \A k \in 1..Cardinality(EnumerationFacets) :
             LET val == InFacets[EnumerationFacet(k)].val
             IN  /\ EnumText[VariantPos(k)].a = to_pascal_case(val)
                 /\ EnumText[VariantPos(k) - 1].kind = "variant_rename"
                 /\ EnumText[VariantPos(k) - 1].a = val

\* facets dark_blue, a pattern, red gave the variants DarkBlue and Red, in
\* this order, each with its rename
C8_Witness ==
    /\ IsEnumCall /\ result.ok /\ IsSome(result.val)
    /\ Len(InFacets) = 3
    /\ InFacets[1] = [ facet |-> "Enumeration", val |-> S_dark_blue, num |-> 0 ]
    /\ InFacets[2].facet = "Pattern"
    /\ InFacets[3] = [ facet |-> "Enumeration", val |-> S_red, num |-> 0 ]
    /\ Cardinality(VariantPositions) = 2
    /\ EnumText[VariantPos(1)].a = << "D", "a", "r", "k", "B", "l", "u", "e" >>
    /\ EnumText[VariantPos(1) - 1].a = S_dark_blue
    /\ EnumText[VariantPos(2)].a = << "R", "e", "d" >>
    /\ EnumText[VariantPos(2) - 1].a = S_red

(***************************************************************************)
(* Reading the emitted method back.                                        *)
(***************************************************************************)
IsMethodCall == call = "generate_operation_method"

MethodText == result.val

InMessages == args.wsdl.messages

\* the messages a reference names, by position
MessagesNamed(reference) ==
    IF IsSome(reference)
    THEN { i \in DOMAIN InMessages :
             InMessages[i].name = local_name(reference.val) }
    ELSE { }

\* the reference resolves: a message of that name exists, and the first such
\* message has a first part that references an element
Resolves(reference) ==
    /\ MessagesNamed(reference) # { }
    /\ LET m == InMessages[CHOOSE i \in MessagesNamed(reference) :
                             \A j \in MessagesNamed(reference) : i <= j]
       IN  Len(m.parts) >= 1 /\ IsSome(m.parts[1].element)

ResolvedElement(reference) ==
    InMessages[CHOOSE i \in MessagesNamed(reference) :
                 \A j \in MessagesNamed(reference) : i <= j].parts[1].element.val

ExpectedPayload(reference) ==
    IF Resolves(reference)
    THEN to_pascal_case(local_name(ResolvedElement(reference)))
    ELSE S_unit

FnLines == { i \in DOMAIN MethodText : MethodText[i].kind = "fn" }

Parsing == pc \in { "main", "skip", "sequence", "all" }

\* a direct child of the complexType is open that is neither a sequence nor
\* an all group: a construct in container form the parser does not support
InsideUnsupported ==
    /\ Parsing
    /\ Len(open) >= 2
    /\ open[2] \notin { "sequence", "all" }

\* the positions of the open attribute elements
AttributePositions == { i \in 1..Len(open) : open[i] = "attribute" }

\* the open attribute that the counter of the skip loop stands for: the one
\* with depth open attributes from it upwards (0 if there is none)
SkippedFrom ==
    LET from == { i \in AttributePositions :
                    Cardinality({ j \in AttributePositions : j >= i }) = depth }
    IN  IF from = { } THEN 0 ELSE CHOOSE i \in from : TRUE

Ended == pc \in { "idle", "failed" } /\ returned # "none"

\* C11 as stated: parse_complex_type returns Ok on every stream that the
\* tokenizer delivers without a stream error: a call that has ended has
\* returned Ok, unless read_event_into returned an error ("Err").
C11_OkUnlessStreamError ==
    Ended => returned \in { "Ok", "Err" }

\* C11, what holds of it: on a finite stream parse_complex_type terminates;
\* the end of the stream is an implicit close, in the main loop, inside the
\* attribute skip and inside a group: the call then returns Ok and a named
\* type is registered as built so far; the call returns Ok only from the main
\* loop, at the end of the complexType or of the stream.
C11_TerminatesAndEofCloses ==
    /\ Parsing ~> Ended
    /\ [][ /\ (Parsing /\ eof) =>
                /\ pc = "main"
                /\ returned' = "Ok"
                /\ pc' = "idle"
                /\ complex_type' = complex_type
                /\ complex_type.name # << >> =>
                      /\ complex_type.name \in DOMAIN complex_types'
                      /\ complex_types'[complex_type.name] = complex_type
           /\ (Parsing /\ ~eof /\ eof') => pc' \in { "main", "idle" }
           /\ returned' = "Ok" => (pc = "main" /\ Len(open') = 0)
         ]_vars

\* a truncated stream: the stream ended inside the body of a named
\* complexType that had an attribute, the call returned Ok and the type was
\* registered with the attribute
C11_Witness ==
    /\ Ended
    /\ eof
    /\ returned = "Ok"
    /\ S_Entity \in DOMAIN complex_types
    /\ Len(complex_types[S_Entity].attributes) = 1

(***************************************************************************)
(* Claims about the registry, on the states of SchemaSpec.                 *)
(***************************************************************************)
\* every key of the registry is a non-empty name, the name of its type
KeysAreNames ==
    \A n \in DOMAIN complex_types :
        n # << >> /\ complex_types[n].name = n

\* C12: a complexType without a name is parsed to its end (the call returns
\* Ok) but not registered: the call leaves the registry as it was; and after
\* any sequence of calls every key of the registry is a non-empty name, equal
\* to the name field of the type stored under it.
C12_UnnamedNotRegistered ==
    /\ [] KeysAreNames
    /\ [][ (returned' = "Ok" /\ complex_type.name = << >>)
               => complex_types' = complex_types ]_vars
    /\ [][ complex_types' # complex_types
               => (returned' = "Ok" /\ complex_type.name # << >>) ]_vars

\* the registry holds Entity from an earlier call; the call that returned last
\* has parsed an unnamed complexType with an attribute and a group to its end
C12_Witness ==
    /\ Ended
    /\ returned = "Ok"
    /\ ~eof
    /\ complex_type.name = << >>
    /\ Len(complex_type.attributes) = 1
    /\ IsSome(complex_type.sequence)
    /\ DOMAIN complex_types = { S_Entity }
    /\ complex_types[S_Entity] # [ complex_type EXCEPT !.name = S_Entity ]

\* a group of the given kinds, a direct child of the complexType, is closed by
\* the step
GroupCloses(kinds) ==
    /\ Parsing
    /\ Len(open) = 2
    /\ open[2] \in kinds
    /\ open' = << "complexType" >>

\* the all slot and the choice slot of a type
SeparateSlotsEmpty(ct) == ~IsSome(ct.all) /\ ~IsSome(ct.choice)

\* C13 as stated: all groups and choice groups are folded into the sequence
\* slot: when an all group or a choice group of the body closes, the sequence
\* slot of the type holds a group (the elements collected from it), and the
\* all slot and the choice slot are never populated.
C13_AllAndChoiceFolded ==
    /\ [] SeparateSlotsEmpty(complex_type)
    /\ [][ GroupCloses({ "all", "choice" })
               => IsSome(complex_type'.sequence) ]_vars

\* C13, what holds of it: an all group is folded into the sequence slot: the
\* start of an all group in the main loop enters parse_all, whose elements
\* become the sequence slot when it returns; the slot holds a group when an
\* all group of the body closes; the all slot and the choice slot stay
\* unpopulated, in the type being built and in the registry.
C13_AllFolded ==
    /\ [] SeparateSlotsEmpty(complex_type)
    /\ [] (\A n \in DOMAIN complex_types : SeparateSlotsEmpty(complex_types[n]))
    /\ [][ GroupCloses({ "all" }) => IsSome(complex_type'.sequence) ]_vars
    /\ [][ (pc = "main" /\ open' = Append(open, "all")) => pc' = "all" ]_vars
    /\ [][ (pc = "all" /\ pc' # "all" /\ pc' # "failed")
               => /\ pc' = "main"
                  /\ complex_type'.sequence = Some([ elements |-> elements ])
         ]_vars

\* the type registered from <all> with the elements userName and Code: they
\* are the elements of its sequence slot, in document order
C13_Witness ==
    /\ Ended
    /\ returned = "Ok"
    /\ ~eof
    /\ S_Entity \in DOMAIN complex_types
    /\ IsSome(complex_types[S_Entity].sequence)
    /\ Len(complex_types[S_Entity].sequence.val.elements) = 2
    /\ complex_types[S_Entity].sequence.val.elements[1].name = S_userName
    /\ complex_types[S_Entity].sequence.val.elements[2].name = S_Code
    /\ SeparateSlotsEmpty(complex_types[S_Entity])

\* the registry after a call has returned the type ct
RegistryAfter(ct) ==
    [ n \in DOMAIN complex_types \cup { ct.name } |->
        IF n = ct.name THEN ct ELSE complex_types[n] ]

\* C14: type names are unique keys of the registry.  The return of a named
\* type leaves exactly one entry under its name, the type just parsed, whether
\* or not the name was registered before, without error and with every entry
\* of another name as it was; no other step changes the registry; so the
\* registry holds one entry per distinct name, the definition parsed last
\* under it.
C14_LastDefinitionWins ==
    /\ [] KeysAreNames
    /\ [][ (returned' = "Ok" /\ complex_type.name # << >>)
               => /\ complex_types' = RegistryAfter(complex_type)
                  /\ DOMAIN complex_types'
                        = DOMAIN complex_types \cup { complex_type.name }
                  /\ complex_types'[complex_type.name] = complex_type
                  /\ \A n \in DOMAIN complex_types :
                        n # complex_type.name
                            => complex_types'[n] = complex_types[n]
         ]_vars
    /\ [][ returned' # "Ok" => complex_types' = complex_types ]_vars
    /\ [][ (Parsing /\ pc' = "idle") => returned' = "Ok" ]_vars

\* Entity is registered, from an earlier call, without fields; a second
\* definition of Entity, with an attribute and a group, has been read up to
\* its end tag: the return that follows replaces the entry
C14_Witness ==
    /\ pc = "main"
    /\ open = << "complexType" >>
    /\ DOMAIN complex_types = { S_Entity }
    /\ complex_types[S_Entity] = [ DefaultComplexType EXCEPT !.name = S_Entity ]
    /\ complex_type.name = S_Entity
    /\ Len(complex_type.attributes) = 1
    /\ IsSome(complex_type.sequence)

(***************************************************************************)
(* Claims about QName, on the states of Spec.                              *)
(***************************************************************************)
IsQNameCall == call = "QName"

\* the positions of the separators of the text
Separators == { i \in 1..Len(args.text) : args.text[i] = ":" }

\* the text after position i
After(i) == SubSeq(args.text, i + 1, Len(args.text))

\* C15 as stated: prefix() is None exactly when the text has no ':', and
\* local_name() is the slice after the last ':' (the whole text when there is
\* none).
C15_LocalNameAfterLastSeparator ==
    IsQNameCall =>
        /\ ~IsSome(result.prefix) <=> Separators = { }
        /\ Separators = { } => result.local_name = args.text
        /\ \A i \in Separators :
             (\A j \in Separators : j <= i) => result.local_name = After(i)

\* C15 as the code has it: prefix() is None exactly when the text has no ':';
\* otherwise it is the slice before the first ':', and local_name() is the
\* slice after the first ':' (the whole text when there is none), so that
\* prefix, ':' and local name make up the text again: for a:b:c the prefix is
\* a and the local name is b:c; with one separator the local name is the
\* slice after it.
C15_LocalNameAfterFirstSeparator ==
    IsQNameCall =>
        /\ ~IsSome(result.prefix) <=> Separators = { }
        /\ Separators = { } => result.local_name = args.text
        /\ \A i \in Separators :
             (\A j \in Separators : j >= i) =>
                 /\ result.local_name = After(i)
                 /\ result.prefix = Some(SubSeq(args.text, 1, i - 1))
                 /\ result.prefix.val \o << ":" >> \o result.local_name
                        = args.text
                 /\ \A k \in 1..Len(result.prefix.val) :
                        result.prefix.val[k] # ":"

\* the text a:b:c was taken apart into the prefix a and the local name b:c
C15_Witness ==
    /\ IsQNameCall
    /\ args.text = << "a", ":", "b", ":", "c" >>
    /\ result.prefix = Some(<< "a" >>)
    /\ result.local_name = << "b", ":", "c" >>

\* the step opens an attribute element
AttributeOpened == open' = Append(open, "attribute")

\* the step closes an attribute element
AttributeClosed ==
    /\ Len(open) > 0
    /\ open[Len(open)] = "attribute"
    /\ open' = SubSeq(open, 1, Len(open) - 1)

\* C16: at an attribute in container form the main loop records the attribute
\* itself, if it has name and type, and starts the skip with the counter at 1;
\* in the skip the counter goes up by one at each start event of an attribute,
\* down by one at each end event of an attribute, and is left alone by every
\* other event; the counter is at least 1 while the skip runs; the skip ends
\* exactly at the end event that takes the counter to zero, or at the end of
\* the stream; no event of the skip adds an attribute or a group to the type;
\* after the skip the main loop reads the next event.
C16_AttributeSkipCounter ==
    /\ [] (pc = "skip" => depth >= 1)
    /\ [][ (pc = "main" /\ AttributeOpened /\ pc' # "failed")
               => /\ pc' = "skip"
                  /\ depth' = 1
                  /\ complex_type'.name = complex_type.name
                  /\ complex_type'.sequence = complex_type.sequence
                  /\ \/ complex_type'.attributes = complex_type.attributes
                     \/ /\ Len(complex_type'.attributes)
                              = Len(complex_type.attributes) + 1
                        /\ SubSeq(complex_type'.attributes, 1,
                                  Len(complex_type.attributes))
                              = complex_type.attributes
         ]_vars
    /\ [][ (pc = "skip" /\ pc' = "skip")
               => /\ AttributeOpened => depth' = depth + 1
                  /\ AttributeClosed => depth' = depth - 1
                  /\ (~AttributeOpened /\ ~AttributeClosed) => depth' = depth
         ]_vars
    /\ [][ (pc = "skip" /\ AttributeClosed /\ pc' # "failed")
               => (pc' = "main" <=> depth = 1) ]_vars
    /\ [][ (pc = "skip" /\ pc' # "skip" /\ pc' # "failed")
               => /\ pc' = "main"
                  /\ eof' \/ (AttributeClosed /\ depth = 1)
         ]_vars
    /\ [][ (pc = "skip" /\ ~eof /\ eof') => pc' = "main" ]_vars
    /\ [][ (pc = "skip" /\ pc' # "failed")
               => /\ complex_type'.attributes = complex_type.attributes
                  /\ complex_type'.sequence = complex_type.sequence
         ]_vars

\* the main loop has recorded the required attribute key of a container form
\* attribute; the skip is inside an element of it, the counter at 1
C16_Witness ==
    /\ pc = "skip"
    /\ depth = 1
    /\ open = << "complexType", "attribute", "element" >>
    /\ Len(complex_type.attributes) = 1
    /\ complex_type.attributes[1].name = S_key
    /\ complex_type.attributes[1].use_ = "Required"

(***************************************************************************)
(* Claims about parse_attribute, on the states of Spec.                    *)
(***************************************************************************)
IsAttributeCall == call = "parse_attribute"

\* the tags that have both name and type
Complete ==
    { i \in 1..Len(args.tags) :
        IsSome(args.tags[i].name) /\ IsSome(args.tags[i].type) }

\* the place, among the attributes of the type, of the attribute of tag i
PlaceOf(i) == Cardinality({ j \in Complete : j <= i })

GroupOpens(kinds) ==
    /\ pc = "main"
    /\ open = << "complexType" >>
    /\ Len(open') = 2
    /\ open'[2] \in kinds
    /\ pc' # "failed"

\* the step reads an empty group in the main loop, or ends the collection of
\* a group
GroupAssigned ==
    \/ pc \in { "sequence", "all", "choice" } /\ pc' = "main"
    \/ /\ pc = "main" /\ pc' = "main"
       /\ open' = open
       /\ complex_type'.sequence = Some([ elements |-> << >> ])

\* each group of the given kinds is collected and overwrites the sequence slot
\* when it ends, whatever the slot held; nothing else changes the slot; the
\* type is registered with the slot as the last group has left it
LastOf(kinds) ==
    /\ GroupOpens(kinds) => (pc' = open'[2] /\ elements' = << >>)
    /\ (pc \in kinds /\ pc' # pc /\ pc' # "failed")
          => /\ pc' = "main"
             /\ complex_type'.sequence = Some([ elements |-> elements ])
    /\ (Parsing /\ pc' # "failed"
            /\ complex_type'.sequence # complex_type.sequence)
          => GroupAssigned
    /\ (returned' = "Ok" /\ complex_type.name # << >>)
          => complex_types'[complex_type.name].sequence
                = complex_type.sequence

\* C18 as stated: a body with more than one of sequence, all and choice is not
\* rejected, and each of these groups overwrites the slot, so that the
\* registered type has the elements of the group that comes last.
C18_LastGroupWins == [][LastOf({ "sequence", "all", "choice" })]_vars

\* C18, what holds of it: the same of sequence and all groups, which are the
\* groups parse_complex_type parses.
C18_LastSequenceOrAllWins == [][LastOf({ "sequence", "all" })]_vars

\* the body had a sequence with the element userName; the all group that
\* follows it has collected the element Code and is about to be closed
C18_Witness ==
    /\ pc = "all"
    /\ open = << "complexType", "all" >>
    /\ IsSome(complex_type.sequence)
    /\ Len(complex_type.sequence.val.elements) = 1
    /\ complex_type.sequence.val.elements[1].name = S_userName
    /\ Len(elements) = 1
    /\ elements[1].name = S_Code

\* no two entries of the list have the same name
DistinctNames(list) ==
    \A i, j \in DOMAIN list : i # j => list[i].name # list[j].name

\* C19 as stated: for a type whose attribute names are pairwise distinct and
\* whose element names are pairwise distinct, the identifiers of the fields of
\* the emitted struct are pairwise distinct.
C19_FieldIdentifiersDistinct ==
    (IsStructCall /\ DistinctNames(InAttributes) /\ DistinctNames(InElements))
        => \A k, l \in 1..FieldCount :
               k # l => FieldIdent(k) # FieldIdent(l)

\* a type with the attribute type and the element type: the struct has two
\* fields, both with the identifier type_
C19_Witness ==
    /\ IsStructCall
    /\ Len(InAttributes) = 1
    /\ Len(InElements) = 1
    /\ InAttributes[1].name = S_type
    /\ InElements[1].name = S_type
    /\ FieldCount = 2
    /\ FieldIdent(1) = << "t", "y", "p", "e", "_" >>
    /\ FieldIdent(2) = << "t", "y", "p", "e", "_" >>

=============================================================================
